---- MODULE Spec2Model ----
(***************************************************************************)
(* Model of the ML model lifecycle and prediction service                  *)
(* (src/ml_service/model_training.py, src/ml_service/prediction_service.py)*)
(*                                                                         *)
(* The durable state is the artifact store: a directory tree under         *)
(* model_dir holding, per training run, a model blob                       *)
(* <model_name>_<timestamp>.joblib and a metadata document                 *)
(* <model_name>_<timestamp>_metadata.json.  Strings (owner ids, model      *)
(* names, paths) are sequences of tokens, so that os.path.join,            *)
(* str.replace and str.endswith are computed on the text as the code does. *)
(***************************************************************************)
EXTENDS Integers, Sequences, FiniteSets, TLC

VARIABLES
    files,      \* the files of the store: path -> [kind, doc, whole]
    dirs,       \* the directories that exist
    clock,      \* the wall clock, in ticks: the next value datetime.now() returns
    last,       \* the last call made to the service and its outcome
    tasks       \* the calls in progress, step by step (concurrent callers only)

vars == <<files, dirs, clock, last, tasks>>

(***************************************************************************)
(* Bounds of the model.                                                    *)
(***************************************************************************)
MaxClock == 1           \* last tick at which a train call of Spec may stamp its files
TicksPerSecond == 2     \* clock ticks in one second of the file-name timestamp

(***************************************************************************)
(* Text: tokens and token strings.                                         *)
(***************************************************************************)
JOBLIB == ".joblib"
METADATA == "_metadata.json"
SEP == "/"
UNDERSCORE == "_"

\* model_dir, the default of ModelTrainer.__init__
ModelDir == <<"models">>

\* None / the empty string (both falsy in `if model_name:` and `if not model_path:`)
None == <<>>

\* the owner ids and model names the callers supply
Owners == {<<"a">>}
ModelNames == {<<"m">>, <<"m", JOBLIB>>}

SetMax(S) == CHOOSE x \in S : \A y \in S : y <= x
SetMin(S) == CHOOSE x \in S : \A y \in S : x <= y

\* str.replace(old, new): every occurrence is replaced
Replace(s, old, new) == [i \in DOMAIN s |-> IF s[i] = old THEN new ELSE s[i]]

\* str.endswith(suffix)
EndsWith(s, suffix) == Len(s) > 0 /\ s[Len(s)] = suffix

\* os.path.join(a, b), b relative
PathJoin(a, b) == a \o <<SEP>> \o b

\* the directory a path lies in
DirName(p) ==
    LET idx == {i \in DOMAIN p : p[i] = SEP}
    IN  IF idx = {} THEN <<>> ELSE SubSeq(p, 1, SetMax(idx) - 1)

\* os.makedirs(d, exist_ok=True): d and every directory above it
MakeDirs(ds, d) ==
    ds \cup {d} \cup {SubSeq(d, 1, i - 1) : i \in {j \in DOMAIN d : d[j] = SEP}}

(***************************************************************************)
(* Time: datetime.now(), isoformat() and strftime('%Y%m%d_%H%M%S').        *)
(***************************************************************************)
Second(t) == t \div TicksPerSecond

\* datetime.isoformat(): the fraction is omitted when it is zero
IsoFormat(t) ==
    IF t % TicksPerSecond = 0 THEN <<Second(t)>> ELSE <<Second(t), t % TicksPerSecond>>

\* strftime('%Y%m%d_%H%M%S'): second resolution
StrfTime(t) == ToString(Second(t))

\* a < b on isoformat strings (Python's lexicographic string order)
StrLess(a, b) ==
    \E k \in 1..(Len(a) + 1) :
        /\ k <= Len(b)
        /\ \A i \in 1..(k - 1) : a[i] = b[i]
        /\ (k = Len(a) + 1 \/ a[k] < b[k])

(***************************************************************************)
(* The file system.                                                        *)
(***************************************************************************)
\* the file at path p is created or truncated and holds content c
Put(fs, p, c) == [q \in (DOMAIN fs) \cup {p} |-> IF q = p THEN c ELSE fs[q]]

\* os.remove(p)
Remove(fs, p) == [q \in (DOMAIN fs) \ {p} |-> fs[q]]

\* os.path.exists(p), p a file path
Exists(fs, p) == p \in DOMAIN fs

\* a model blob written by joblib.dump; whole = FALSE when the write was cut short
Blob(doc, whole) == [kind |-> "blob", doc |-> doc, whole |-> whole]

\* a metadata document written by json.dump; whole = FALSE when the write was cut short
MetaDoc(doc, whole) == [kind |-> "meta", doc |-> doc, whole |-> whole]

(***************************************************************************)
(* ModelTrainer: the algorithm registry and train_model.                   *)
(***************************************************************************)
\* self.model_configs: model type -> the algorithms registered for it
model_configs ==
    [lead_conversion |->
        {"random_forest", "gradient_boosting", "logistic_regression", "neural_network"},
     customer_lifetime_value |->
        {"random_forest", "gradient_boosting", "linear_regression", "neural_network"}]

\* a validation that accepts an algorithm registered for any model type
ValidateBroken(model_type, algorithm) ==
    /\ model_type \in DOMAIN model_configs
    /\ \E t \in DOMAIN model_configs : algorithm \in model_configs[t]

\* the two checks that open train_model: TRUE when neither raises ValueError
Validate(model_type, algorithm) ==
    /\ model_type \in DOMAIN model_configs
    /\ algorithm \in model_configs[model_type]

\* where a train call can fail after validation: the split, the fit (or grid
\* search), the metrics, and the steps of save_model
TrainFaults ==
    {"none", "split", "fit", "metrics", "makedirs", "dump", "meta_open", "meta_write"}

\* X.columns.tolist(): the feature names of the training frame, in column order
FeatureNames == <<"lead_score", "engagement_score">>

\* model_metadata as train_model builds it
ModelMetadata(model_type, algorithm, model_name, user_id, now) ==
    [model_type |-> model_type, algorithm |-> algorithm, model_name |-> model_name,
     user_id |-> user_id, training_date |-> IsoFormat(now), features |-> FeatureNames]

UserDir(user_id) == PathJoin(ModelDir, user_id)

\* save_model's two file names in the owner's directory, at time t
ModelPath(model_name, user_id, t) ==
    PathJoin(UserDir(user_id), model_name \o <<UNDERSCORE, StrfTime(t), JOBLIB>>)

MetadataPath(model_name, user_id, t) ==
    PathJoin(UserDir(user_id), model_name \o <<UNDERSCORE, StrfTime(t), METADATA>>)

\* What a raised exception leaves behind.
Raised(fs, ds, error, stages) ==
    [files |-> fs, dirs |-> ds, outcome |-> "raise", success |-> FALSE, error |-> error,
     stages |-> stages, path |-> None, saved |-> FALSE]

\* save_model(model, metadata) at time t: makedirs, joblib.dump, open, json.dump.
SaveModel(fs, ds, doc, t, fault, stages) ==
    LET model_path == ModelPath(doc.model_name, doc.user_id, t)
        metadata_path == MetadataPath(doc.model_name, doc.user_id, t)
        ds1 == MakeDirs(ds, UserDir(doc.user_id))
        fs1 == Put(fs, model_path, Blob(doc, TRUE))
        fs2 == Put(fs1, metadata_path, MetaDoc(doc, TRUE))
    IN  IF fault = "makedirs" THEN Raised(fs, ds, "OSError", stages)
        ELSE IF DirName(model_path) \notin ds1
             THEN Raised(fs, ds1, "FileNotFoundError", stages)
        ELSE IF fault = "dump"
             THEN Raised(Put(fs, model_path, Blob(doc, FALSE)), ds1, "OSError", stages)
        ELSE IF fault = "meta_open" THEN Raised(fs1, ds1, "OSError", stages)
        ELSE IF fault = "meta_write"
             THEN Raised(Put(fs1, metadata_path, MetaDoc(doc, FALSE)), ds1, "OSError", stages)
        ELSE [files |-> fs2, dirs |-> ds1, outcome |-> "return", success |-> TRUE,
              error |-> "", stages |-> stages, path |-> model_path, saved |-> TRUE]

\* train_model, the whole call. now is the clock at 'training_date', now + e the
\* clock when save_model stamps the file names.
TrainModel(fs, ds, model_type, algorithm, model_name, user_id, now, e, fault) ==
    IF ~Validate(model_type, algorithm)
    THEN Raised(fs, ds, "ValueError", <<"validate">>)
    ELSE IF fault = "split"
    THEN Raised(fs, ds, "SplitError", <<"validate", "split">>)
    ELSE IF fault = "fit"
    THEN Raised(fs, ds, "FitError", <<"validate", "split", "fit">>)
    ELSE IF fault = "metrics"
    THEN Raised(fs, ds, "MetricError", <<"validate", "split", "fit", "metrics">>)
    ELSE SaveModel(fs, ds,
                   ModelMetadata(model_type, algorithm, model_name, user_id, now),
                   now + e, fault, <<"validate", "split", "fit", "metrics", "save">>)

\* The action: one call of train_model.
Train(model_type, algorithm, model_name, user_id, e, fault) ==
    /\ LET r == TrainModel(files, dirs, model_type, algorithm, model_name, user_id,
                           clock, e, fault)
           wrote == r.files # files
       IN  /\ files' = r.files
           /\ dirs' = r.dirs
           /\ clock' = IF wrote THEN clock + e + 1 ELSE clock
           /\ last' = [op |-> "train", model_type |-> model_type, algorithm |-> algorithm,
                       model_name |-> model_name, user_id |-> user_id,
                       outcome |-> r.outcome, success |-> r.success, error |-> r.error,
                       stages |-> r.stages, path |-> r.path, wrote |-> wrote,
                       changed |-> wrote \/ r.dirs # dirs,
                       overwrote |->
                           /\ r.saved
                           /\ \/ Exists(files, ModelPath(model_name, user_id, clock + e))
                              \/ Exists(files, MetadataPath(model_name, user_id, clock + e))]
           /\ UNCHANGED tasks

(***************************************************************************)
(* ModelTrainer: get_model_list, load_model, delete_model.                 *)
(***************************************************************************)
\* os.listdir(user_dir), the entries that end with '_metadata.json'
MetadataFiles(fs, user_id) ==
    {p \in DOMAIN fs : DirName(p) = UserDir(user_id) /\ EndsWith(p, METADATA)}

\* json.load fails on a document whose write was cut short, and get_model_list
\* does not catch it
GetModelListRaises(fs, ds, user_id) ==
    /\ UserDir(user_id) \in ds
    /\ \E p \in MetadataFiles(fs, user_id) : ~fs[p].whole

\* the entries get_model_list collects, before the sort
ModelEntries(fs, ds, user_id) ==
    IF UserDir(user_id) \notin ds THEN {}
    ELSE {[model_path |-> Replace(p, METADATA, JOBLIB), metadata |-> fs[p].doc] :
            p \in MetadataFiles(fs, user_id)}

\* a list in the order os.listdir gave, without the sort
ListdirOrder(S) ==
    {s \in [1..Cardinality(S) -> S] : \A i, j \in 1..Cardinality(S) : i < j => s[i] # s[j]}

\* sorted(models, key=training_date, reverse=True): newest first; entries with
\* equal keys keep the order os.listdir gave them, which is arbitrary
SortedNewestFirst(S) ==
    {s \in [1..Cardinality(S) -> S] :
        \A i, j \in 1..Cardinality(S) :
            i < j => /\ s[i] # s[j]
                     /\ ~StrLess(s[i].metadata.training_date, s[j].metadata.training_date)}

\* the lists get_model_list can return
GetModelList(fs, ds, user_id) == SortedNewestFirst(ModelEntries(fs, ds, user_id))

NoDoc ==
    [model_type |-> "", algorithm |-> "", model_name |-> None, user_id |-> None,
     training_date |-> <<>>, features |-> <<>>]

\* load_model(model_path): joblib.load of the blob, then json.load of the file
\* named by model_path.replace('.joblib', '_metadata.json')
LoadModel(fs, model_path) ==
    LET metadata_path == Replace(model_path, JOBLIB, METADATA)
        blob_ok == /\ Exists(fs, model_path)
                   /\ fs[model_path].kind = "blob"
                   /\ fs[model_path].whole
        meta_ok == /\ Exists(fs, metadata_path)
                   /\ fs[metadata_path].kind = "meta"
                   /\ fs[metadata_path].whole
    IN  [ok |-> blob_ok /\ meta_ok,
         model |-> IF blob_ok THEN fs[model_path].doc ELSE NoDoc,
         metadata |-> IF blob_ok /\ meta_ok THEN fs[metadata_path].doc ELSE NoDoc]

\* where delete_model can fail: the removal of the blob, the removal of the metadata
DeleteFaults == {"none", "blob_remove", "meta_remove"}

\* a delete_model that puts the blob back when the metadata removal fails
DeleteModelRollback(fs, model_path, fault) ==
    LET metadata_path == Replace(model_path, JOBLIB, METADATA)
        fs1 == IF Exists(fs, model_path) THEN Remove(fs, model_path) ELSE fs
        fs2 == IF Exists(fs1, metadata_path) THEN Remove(fs1, metadata_path) ELSE fs1
    IN  IF fault = "none" THEN [files |-> fs2, returned |-> TRUE]
        ELSE [files |-> fs, returned |-> FALSE]

\* delete_model(model_path): the files left and the value returned
DeleteModel(fs, model_path, fault) ==
    LET metadata_path == Replace(model_path, JOBLIB, METADATA)
        fs1 == IF Exists(fs, model_path) THEN Remove(fs, model_path) ELSE fs
        fs2 == IF Exists(fs1, metadata_path) THEN Remove(fs1, metadata_path) ELSE fs1
    IN  IF Exists(fs, model_path) /\ fault = "blob_remove"
        THEN [files |-> fs, returned |-> FALSE]
        ELSE IF Exists(fs1, metadata_path) /\ fault = "meta_remove"
        THEN [files |-> fs1, returned |-> FALSE]
        ELSE [files |-> fs2, returned |-> TRUE]

\* a path that was never written
NoSuchPath == PathJoin(UserDir(<<"a">>), <<"gone", UNDERSCORE, "0", JOBLIB>>)

\* the paths callers hand to delete_model: a storage path train returned, a
\* model_path get_model_list returned, or a path with no files
DeletePaths ==
    {p \in DOMAIN files : EndsWith(p, JOBLIB)}
        \cup {Replace(p, METADATA, JOBLIB) : p \in {q \in DOMAIN files : EndsWith(q, METADATA)}}
        \cup {NoSuchPath}

\* The action: one call of delete_model.
Delete(model_path, fault) ==
    LET r == DeleteModel(files, model_path, fault)
    IN  /\ fault = "none" \/ ~r.returned
        /\ files' = r.files
        /\ last' = [op |-> "delete", path |-> model_path, outcome |-> "return",
                    returned |-> r.returned, before |-> DOMAIN files,
                    fault |-> fault, changed |-> r.files # files]
        /\ UNCHANGED <<dirs, clock, tasks>>

\* The action: one call of get_model_list.
ListModels(user_id) ==
    /\ IF GetModelListRaises(files, dirs, user_id)
       THEN last' = [op |-> "list", user_id |-> user_id, outcome |-> "raise", models |-> <<>>,
                    changed |-> FALSE]
       ELSE \E models \in GetModelList(files, dirs, user_id) :
                last' = [op |-> "list", user_id |-> user_id, outcome |-> "return",
                         models |-> models, changed |-> FALSE]
    /\ UNCHANGED <<files, dirs, clock, tasks>>

(***************************************************************************)
(* PredictionService: artifact resolution and the three predict handlers.  *)
(***************************************************************************)
\* the handlers: predict_lead_conversion, predict_customer_lifetime_value,
\* batch_predict_lead_conversion
PredictKinds == {"lead_single", "clv_single", "lead_batch"}

\* the model type each handler resolves
ModelTypeOf(kind) ==
    IF kind = "clv_single" THEN "customer_lifetime_value" ELSE "lead_conversion"

\* the error of each handler's `if not model_path` return
NoModelError(kind) ==
    IF kind = "clv_single"
    THEN "No trained model available for lifetime value prediction"
    ELSE "No trained model available for lead conversion"

\* type_models = [m for m in models if m['metadata'].get('model_type') == model_type]
TypeModels(models, model_type) ==
    LET IsType(m) == m.metadata.model_type = model_type
    IN  SelectSeq(models, IsType)

\* a resolution whose name loop keeps the last match of the list
GetBestModelPathLastMatch(models, model_type, model_name) ==
    LET type_models == TypeModels(models, model_type)
        named == {i \in DOMAIN type_models :
                    type_models[i].metadata.model_name = model_name}
    IN  IF type_models = <<>> THEN None
        ELSE IF model_name # None /\ named # {}
             THEN type_models[SetMax(named)].model_path
        ELSE type_models[1].model_path

\* _get_best_model_path, given the list get_model_list returned
GetBestModelPath(models, model_type, model_name) ==
    LET type_models == TypeModels(models, model_type)
        named == {i \in DOMAIN type_models :
                    type_models[i].metadata.model_name = model_name}
        \* max(type_models, key=training_date): the first of the maximal entries
        newest == {i \in DOMAIN type_models :
                    \A j \in DOMAIN type_models :
                        ~StrLess(type_models[i].metadata.training_date,
                                 type_models[j].metadata.training_date)}
    IN  IF type_models = <<>> THEN None
        ELSE IF model_name # None /\ named # {}
             THEN type_models[SetMin(named)].model_path
        ELSE type_models[SetMin(newest)].model_path

\* where a predict call can fail besides the store: the featurization, the inference
PredictFaults == {"none", "featurize", "infer"}

\* an exception raised inside a handler's try block, after the given stages;
\* path is what the resolution had returned by then
Thrown(error, stages, path) ==
    [outcome |-> "raise", success |-> FALSE, error |-> error, stages |-> stages,
     path |-> path, model |-> NoDoc, metadata |-> NoDoc]

\* a handler without the early return
NoEarlyReturn(model_path) == FALSE

\* `if not model_path:`
NotResolved(model_path) == model_path = None

\* the body of a handler's try block. models is the list get_model_list gave,
\* list_raised tells that it raised instead.
PredictBody(fs, models, list_raised, kind, model_name, fault) ==
    IF list_raised THEN Thrown("JSONDecodeError", <<"resolve">>, None)
    ELSE
    LET model_path == GetBestModelPath(models, ModelTypeOf(kind), model_name)
        loaded == LoadModel(fs, model_path)
    IN  IF NotResolved(model_path)
        THEN [outcome |-> "return", success |-> FALSE, error |-> NoModelError(kind),
              stages |-> <<"resolve">>, path |-> model_path, model |-> NoDoc,
              metadata |-> NoDoc]
        ELSE IF fault = "featurize"
        THEN Thrown("FeatureError", <<"resolve", "featurize">>, model_path)
        ELSE IF ~loaded.ok
        THEN Thrown("LoadError", <<"resolve", "featurize", "infer">>, model_path)
        ELSE IF fault = "infer"
        THEN Thrown("InferenceError", <<"resolve", "featurize", "infer">>, model_path)
        ELSE [outcome |-> "return", success |-> TRUE, error |-> "",
              stages |-> <<"resolve", "featurize", "infer">>, path |-> model_path,
              model |-> loaded.model, metadata |-> loaded.metadata]

\* a handler without the except clause
Propagate(r) == r

\* `except Exception as e: return {'success': False, 'error': str(e)}`
ExceptHandler(r) ==
    IF r.outcome = "raise" THEN [r EXCEPT !.outcome = "return"] ELSE r

\* The action: one call of a predict handler.
Predict(kind, user_id, model_name, fault) ==
    /\ \E models \in IF GetModelListRaises(files, dirs, user_id) THEN {<<>>}
                     ELSE GetModelList(files, dirs, user_id) :
         LET r == ExceptHandler(
                    PredictBody(files, models, GetModelListRaises(files, dirs, user_id),
                                kind, model_name, fault))
         IN  /\ fault = "none" \/ r.error \in {"FeatureError", "InferenceError"}
             /\ last' = [op |-> "predict", kind |-> kind, user_id |-> user_id,
                         model_name |-> model_name, outcome |-> r.outcome,
                         success |-> r.success, error |-> r.error, stages |-> r.stages,
                         path |-> r.path, model |-> r.model, metadata |-> r.metadata,
                         models |-> models, changed |-> FALSE]
    /\ UNCHANGED <<files, dirs, clock, tasks>>

\* get_prediction_insights: the models of the type are counted and their metrics
\* averaged; every exception becomes {'error': ...}.  keys is the key set of the
\* dictionary that is returned.
GetPredictionInsights(fs, ds, user_id, model_type) ==
    LET type_models == {m \in ModelEntries(fs, ds, user_id) :
                            m.metadata.model_type = model_type}
    IN  IF GetModelListRaises(fs, ds, user_id)
        THEN [keys |-> {"error"}, error |-> "JSONDecodeError", total_models |-> 0]
        ELSE IF type_models = {}
        THEN [keys |-> {"error"}, error |-> "No models available for insights",
              total_models |-> 0]
        ELSE [keys |-> {"total_models", "model_types", "avg_performance",
                        "feature_importance_trends", "prediction_patterns"},
              error |-> "", total_models |-> Cardinality(type_models)]

\* The action: one call of get_prediction_insights.
Insights(user_id, model_type) ==
    /\ LET r == GetPredictionInsights(files, dirs, user_id, model_type)
       IN  last' = [op |-> "insights", user_id |-> user_id, model_type |-> model_type,
                    outcome |-> "return", keys |-> r.keys, error |-> r.error,
                    total_models |-> r.total_models, changed |-> FALSE]
    /\ UNCHANGED <<files, dirs, clock, tasks>>

\* where cross_validate_model can fail after the registry lookup: cross_val_score
CrossValidateFaults == {"none", "score"}

\* cross_validate_model: the registry lookup (a KeyError for a pair that is not
\* registered), then cross_val_score per metric
CrossValidateModel(model_type, algorithm, fault) ==
    IF ~Validate(model_type, algorithm) THEN [outcome |-> "raise", error |-> "KeyError"]
    ELSE IF fault = "score" THEN [outcome |-> "raise", error |-> "ScoreError"]
    ELSE [outcome |-> "return", error |-> ""]

\* a cross-validation that saves the model it scored
CrossValidatePersisting(model_type, algorithm, fault) ==
    /\ files' = Put(files, ModelPath(<<"cv">>, <<"a">>, clock),
                    Blob(ModelMetadata(model_type, algorithm, <<"cv">>, <<"a">>, clock), TRUE))
    /\ last' = [op |-> "cross_validate", model_type |-> model_type,
                algorithm |-> algorithm, outcome |-> "return", error |-> "",
                changed |-> FALSE]
    /\ UNCHANGED <<dirs, clock, tasks>>

\* The action: one call of cross_validate_model.
CrossValidate(model_type, algorithm, fault) ==
    /\ LET r == CrossValidateModel(model_type, algorithm, fault)
       IN  last' = [op |-> "cross_validate", model_type |-> model_type,
                    algorithm |-> algorithm, outcome |-> r.outcome, error |-> r.error,
                    changed |-> FALSE]
    /\ UNCHANGED <<files, dirs, clock, tasks>>

(***************************************************************************)
(* The service under sequential calls.                                     *)
(***************************************************************************)
\* the (model_type, algorithm) pairs the callers of this specification train
\* with: registered ones and rejected ones
TrainPairs ==
    {<<"lead_conversion", "random_forest">>,
     <<"customer_lifetime_value", "random_forest">>,
     <<"lead_conversion", "linear_regression">>,
     <<"churn", "random_forest">>}

Init ==
    /\ files = <<>>
    /\ dirs = {ModelDir}
    /\ clock = 0
    /\ last = [op |-> "init", changed |-> TRUE]
    /\ tasks = <<>>

\* No call keeps state outside the store (files, dirs, clock), so a call that
\* left the store as it was changes nothing for the calls after it: such a call is
\* explored as the last call of a behaviour.
Open == last.changed

TrainCall ==
    /\ Open
    /\ \E pair \in TrainPairs, model_name \in ModelNames, user_id \in Owners,
          e \in {0, 1}, fault \in TrainFaults :
        /\ clock + e <= MaxClock
        /\ Train(pair[1], pair[2], model_name, user_id, e, fault)

DeleteCall ==
    /\ Open
    /\ \E model_path \in DeletePaths, fault \in DeleteFaults : Delete(model_path, fault)

ListCall ==
    /\ Open
    /\ \E user_id \in Owners : ListModels(user_id)

PredictCall ==
    /\ Open
    /\ \E kind \in PredictKinds, user_id \in Owners, model_name \in ModelNames \cup {None},
          fault \in PredictFaults :
        Predict(kind, user_id, model_name, fault)

InsightsCall ==
    /\ Open
    /\ \E user_id \in Owners, model_type \in {"lead_conversion", "customer_lifetime_value"} :
        Insights(user_id, model_type)

CrossValidateCall ==
    /\ Open
    /\ \E pair \in TrainPairs, fault \in CrossValidateFaults :
        /\ fault = "none" \/ Validate(pair[1], pair[2])
        /\ CrossValidate(pair[1], pair[2], fault)

Next ==
    \/ TrainCall \/ DeleteCall \/ ListCall \/ PredictCall
    \/ InsightsCall \/ CrossValidateCall

Spec == Init /\ [][Next]_vars

(***************************************************************************)
(* Properties of the artifact store.                                       *)
(***************************************************************************)
\* the other file of an artifact pair: save_model gives both the same
\* <model_name>_<timestamp> stem
Sibling(p) ==
    IF EndsWith(p, JOBLIB) THEN [p EXCEPT ![Len(p)] = METADATA]
    ELSE IF EndsWith(p, METADATA) THEN [p EXCEPT ![Len(p)] = JOBLIB]
    ELSE p

\* C1: in every state of the store reached through train and delete_model calls,
\* also calls that fail part-way, a model blob exists if and only if its sibling
\* metadata document exists.
C1_BlobIffMetadata == \A p \in DOMAIN files : Exists(files, Sibling(p))

\* the entry of a list that a resolved path names
ChosenEntries(models, path) == {i \in DOMAIN models : models[i].model_path = path}

\* C2: resolution for (owner, task type): a supplied model_name selects an artifact
\* of exactly that name; without a model_name the artifact with the latest
\* training_date of that task type is selected; when no artifact of the task type,
\* or none with the supplied name, exists the result is NotFound and no artifact
\* is used.
C2_Resolution ==
    (last.op = "predict" /\ last.error # "JSONDecodeError") =>
        LET type_models == TypeModels(last.models, ModelTypeOf(last.kind))
            named == {i \in DOMAIN type_models :
                        type_models[i].metadata.model_name = last.model_name}
            chosen == {i \in DOMAIN type_models : type_models[i].model_path = last.path}
            no_match == \/ type_models = <<>>
                        \/ last.model_name # None /\ named = {}
        IN  /\ no_match => /\ last.path = None
                           /\ ~last.success
                           /\ last.error = NoModelError(last.kind)
                           /\ last.stages = <<"resolve">>
            /\ ~no_match => /\ chosen # {}
                            /\ last.model_name # None => chosen \subseteq named
                            /\ last.model_name = None =>
                                 \A i \in chosen, j \in DOMAIN type_models :
                                    ~StrLess(type_models[i].metadata.training_date,
                                             type_models[j].metadata.training_date)

\* C3: after delete_model(path) of an existing artifact returns True, the blob and
\* the metadata document of that artifact are gone and no list_models of the store
\* as it then is contains the artifact.
C3_DeleteRemovesPair ==
    (/\ last.op = "delete"
     /\ last.returned
     /\ last.path \in last.before
     /\ Sibling(last.path) \in last.before) =>
        /\ ~Exists(files, last.path)
        /\ ~Exists(files, Sibling(last.path))
        /\ \A user_id \in Owners :
              ~GetModelListRaises(files, dirs, user_id) =>
                  \A models \in GetModelList(files, dirs, user_id) :
                      ChosenEntries(models, last.path) = {}

\* C4: every successful train persists its own artifact pair; no train overwrites
\* the blob or the metadata document of an earlier artifact, also when two
\* trainings of one model_name are saved within the same clock second.
C4_NoOverwrite == (last.op = "train" /\ last.success) => ~last.overwrote

\* C5: train never lets an exception escape: every call returns a success result
\* or a failure result {success: false, error}.
C5_TrainNeverRaises == last.op = "train" => last.outcome = "return"

\* the owner has no artifact of the task type: no metadata document of that type
\* lies in the owner's namespace
ZeroArtifacts(user_id, model_type) ==
    \A p \in MetadataFiles(files, user_id) : files[p].doc.model_type # model_type

\* C7: predict_single for an (owner, task type) with zero artifacts returns the
\* error result {success: false, error} without raising, and fails fast: neither
\* featurization nor model loading is attempted.
C7_NotFoundOnZeroArtifacts ==
    (/\ last.op = "predict"
     /\ last.kind \in {"lead_single", "clv_single"}
     /\ ZeroArtifacts(last.user_id, ModelTypeOf(last.kind))) =>
        /\ last.outcome = "return"
        /\ ~last.success
        /\ last.error # ""
        /\ last.stages = <<"resolve">>
        /\ last.path = None
        /\ ~GetModelListRaises(files, dirs, last.user_id) =>
              last.error = NoModelError(last.kind)

\* C7 witness: a predict_single for a task type the owner has no artifact of,
\* while the owner's namespace holds an artifact of the other type, answered
\* with the NotFound result.
C7_Witness ==
    /\ last.op = "predict"
    /\ last.kind \in {"lead_single", "clv_single"}
    /\ ZeroArtifacts(last.user_id, ModelTypeOf(last.kind))
    /\ MetadataFiles(files, last.user_id) # {}
    /\ last.error = NoModelError(last.kind)

\* the terminal state of a request: Done, or the failure of the stage it stopped in
Terminal(r) ==
    IF r.success THEN "Done"
    ELSE IF r.stages = <<"resolve">> THEN "NotFound"
    ELSE IF r.stages = <<"resolve", "featurize">> THEN "FeatureError"
    ELSE IF r.stages = <<"resolve", "featurize", "infer">> THEN "InferError"
    ELSE "none"

\* C8: every prediction request runs Resolve, Featurize, Infer in that order and
\* ends in one of NotFound, FeatureError, InferError, Done; every terminal state
\* but Done gives the error result {success: false, error}; no request raises,
\* whatever the store holds (a missing blob, an unreadable metadata document).
C8_PredictStateMachine ==
    last.op = "predict" =>
        /\ last.outcome = "return"
        /\ Terminal(last) \in {"NotFound", "FeatureError", "InferError", "Done"}
        /\ Terminal(last) # "Done" => ~last.success /\ last.error # ""
        /\ Terminal(last) = "Done" =>
              /\ last.stages = <<"resolve", "featurize", "infer">>
              /\ last.error = ""
              /\ last.path # None
              /\ last.metadata # NoDoc
        /\ Terminal(last) \in {"FeatureError", "InferError"} => last.path # None

\* C8 witness: a request whose resolved artifact has lost its blob, or whose
\* metadata document is unreadable, ends in InferError with the error result.
C8_Witness ==
    /\ last.op = "predict"
    /\ last.outcome = "return"
    /\ Terminal(last) = "InferError"
    /\ last.error = "LoadError"
    /\ ~Exists(files, last.path)

(***************************************************************************)
(* train_model against every (model type, algorithm) pair.                 *)
(***************************************************************************)
\* the model types and algorithms callers may name: the registered ones, an
\* unknown model type and an unknown algorithm
TaskInputs == {"lead_conversion", "customer_lifetime_value", "churn"}

AlgorithmInputs ==
    {"random_forest", "gradient_boosting", "logistic_regression", "linear_regression",
     "neural_network", "svm"}

RegistryTrainCall ==
    /\ Open
    /\ \E model_type \in TaskInputs, algorithm \in AlgorithmInputs, e \in {0, 1},
          fault \in TrainFaults :
        /\ clock + e <= MaxClock
        /\ Train(model_type, algorithm, <<"m">>, <<"a">>, e, fault)

NextRegistry == RegistryTrainCall

SpecRegistry == Init /\ [][NextRegistry]_vars

\* the registry as the design states it: four algorithms per task type
Registered ==
    {<<"lead_conversion", a>> :
        a \in {"random_forest", "gradient_boosting", "logistic_regression", "neural_network"}}
    \cup
    {<<"customer_lifetime_value", a>> :
        a \in {"random_forest", "gradient_boosting", "linear_regression", "neural_network"}}

\* C6: train rejects every (task type, algorithm) pair that is not in the registry
\* with a validation error, before any split, fit or write to the store; every pair
\* in the registry passes validation.
C6_RegistryValidation ==
    last.op = "train" =>
        IF <<last.model_type, last.algorithm>> \in Registered
        THEN /\ last.error # "ValueError"
             /\ Len(last.stages) > 1
        ELSE /\ last.outcome = "raise"
             /\ last.error = "ValueError"
             /\ last.stages = <<"validate">>
             /\ ~last.changed

\* C6 witness: with an artifact in the store, a train of linear_regression for
\* lead_conversion is rejected with the validation error.
C6_Witness ==
    /\ last.op = "train"
    /\ last.model_type = "lead_conversion"
    /\ last.algorithm = "linear_regression"
    /\ last.error = "ValueError"
    /\ files # <<>>

(***************************************************************************)
(* Concurrent callers.  A call in progress is a task; each step of a task  *)
(* is one access to the store or to the clock, in the order of the code.   *)
(***************************************************************************)
MaxTaskClock == 1       \* last tick the clock reaches while tasks run

Trainers == {"t1", "t2"}
Readers == {"r"}

Idle == [pc |-> "idle"]

TrainTasks == Trainers \cap DOMAIN tasks
ReadTasks == Readers \cap DOMAIN tasks

\* train_model up to the metadata it builds: validation, split, fit, metrics and
\* 'training_date': datetime.now().isoformat()
TrainStart(t, model_type, algorithm, model_name, user_id) ==
    /\ tasks[t].pc = "idle"
    /\ tasks' = [tasks EXCEPT ![t] =
                    IF Validate(model_type, algorithm)
                    THEN [pc |-> "stamp",
                          doc |-> ModelMetadata(model_type, algorithm, model_name,
                                                user_id, clock),
                          path |-> None, metadata_path |-> None,
                          outcome |-> "", error |-> ""]
                    ELSE [pc |-> "done", doc |-> NoDoc, path |-> None,
                          metadata_path |-> None, outcome |-> "raise",
                          error |-> "ValueError"]]
    /\ UNCHANGED <<files, dirs, clock, last>>

\* save_model: timestamp = datetime.now().strftime(...), and the two file names
TrainStamp(t) ==
    /\ tasks[t].pc = "stamp"
    /\ tasks' = [tasks EXCEPT ![t] =
                    [@ EXCEPT !.pc = "makedirs",
                              !.path = ModelPath(tasks[t].doc.model_name,
                                                tasks[t].doc.user_id, clock),
                              !.metadata_path =
                                  MetadataPath(tasks[t].doc.model_name,
                                               tasks[t].doc.user_id, clock)]]
    /\ UNCHANGED <<files, dirs, clock, last>>

\* save_model: os.makedirs(user_dir, exist_ok=True)
TrainMakeDirs(t) ==
    /\ tasks[t].pc = "makedirs"
    /\ dirs' = MakeDirs(dirs, UserDir(tasks[t].doc.user_id))
    /\ tasks' = [tasks EXCEPT ![t].pc = "dump_open"]
    /\ UNCHANGED <<files, clock, last>>

\* joblib.dump opens the blob for writing: the file is created or truncated
TrainDumpOpen(t) ==
    /\ tasks[t].pc = "dump_open"
    /\ IF DirName(tasks[t].path) \notin dirs
       THEN /\ tasks' = [tasks EXCEPT ![t] =
                            [@ EXCEPT !.pc = "done", !.outcome = "raise",
                                      !.error = "FileNotFoundError"]]
            /\ UNCHANGED files
       ELSE /\ files' = Put(files, tasks[t].path, Blob(tasks[t].doc, FALSE))
            /\ tasks' = [tasks EXCEPT ![t].pc = "dump_write"]
    /\ UNCHANGED <<dirs, clock, last>>

\* what a writer leaves when it finishes writing the file it opened: its own
\* content, unless another writer opened the same file in between; then the
\* bytes of the two writers mix and the file may or may not be readable
Written(fs, p, opened, content) ==
    IF Exists(fs, p) /\ fs[p] = opened THEN {content}
    ELSE {content, [content EXCEPT !.whole = FALSE]}

\* joblib.dump writes the blob and closes it
TrainDumpWrite(t) ==
    /\ tasks[t].pc = "dump_write"
    /\ \E c \in Written(files, tasks[t].path, Blob(tasks[t].doc, FALSE),
                        Blob(tasks[t].doc, TRUE)) :
          files' = Put(files, tasks[t].path, c)
    /\ tasks' = [tasks EXCEPT ![t].pc = "meta_open"]
    /\ UNCHANGED <<dirs, clock, last>>

\* open(metadata_path, 'w'): the document is created or truncated
TrainMetaOpen(t) ==
    /\ tasks[t].pc = "meta_open"
    /\ files' = Put(files, tasks[t].metadata_path, MetaDoc(tasks[t].doc, FALSE))
    /\ tasks' = [tasks EXCEPT ![t].pc = "meta_write"]
    /\ UNCHANGED <<dirs, clock, last>>

\* json.dump writes the document, the file is closed, train_model returns
TrainMetaWrite(t) ==
    /\ tasks[t].pc = "meta_write"
    /\ \E c \in Written(files, tasks[t].metadata_path, MetaDoc(tasks[t].doc, FALSE),
                        MetaDoc(tasks[t].doc, TRUE)) :
          files' = Put(files, tasks[t].metadata_path, c)
    /\ tasks' = [tasks EXCEPT ![t] = [@ EXCEPT !.pc = "done", !.outcome = "return"]]
    /\ UNCHANGED <<dirs, clock, last>>

\* the operations a reader task runs: get_model_list, predict_lead_conversion
ReadOps == {"list", "predict"}

\* a reader's exception: get_model_list lets it escape, the predict handler's
\* except clause turns it into the error result
ReadFailed(r, error) ==
    IF r.op = "list"
    THEN [r EXCEPT !.pc = "done", !.outcome = "raise", !.error = error]
    ELSE [r EXCEPT !.pc = "done", !.outcome = "return", !.error = error]

\* get_model_list: os.path.exists(user_dir) and os.listdir(user_dir)
ReadStart(t, op, user_id) ==
    /\ tasks[t].pc = "idle"
    /\ LET found == IF UserDir(user_id) \in dirs THEN MetadataFiles(files, user_id) ELSE {}
       IN  tasks' = [tasks EXCEPT ![t] =
                        [pc |-> IF found = {} THEN "sort" ELSE "scan", op |-> op,
                         user_id |-> user_id, pending |-> found, entries |-> {},
                         models |-> <<>>, path |-> None, model |-> NoDoc,
                         metadata |-> NoDoc, outcome |-> "", success |-> FALSE,
                         error |-> "", torn |-> FALSE]]
    /\ UNCHANGED <<files, dirs, clock, last>>

\* get_model_list: the loop body for one listed file: open it and json.load it
ReadScan(t) ==
    /\ tasks[t].pc = "scan"
    /\ \E p \in tasks[t].pending :
          tasks' = [tasks EXCEPT ![t] =
                      IF ~Exists(files, p) THEN ReadFailed(@, "FileNotFoundError")
                      ELSE IF ~files[p].whole THEN ReadFailed(@, "JSONDecodeError")
                      ELSE [@ EXCEPT
                              !.pc = IF tasks[t].pending = {p} THEN "sort" ELSE "scan",
                              !.pending = @ \ {p},
                              !.entries = @ \cup
                                  {[model_path |-> Replace(p, METADATA, JOBLIB),
                                    metadata |-> files[p].doc]}]]
    /\ UNCHANGED <<files, dirs, clock, last>>

\* get_model_list returns the sorted list; the predict handler goes on to
\* _get_best_model_path and its `if not model_path` return
ReadSort(t) ==
    /\ tasks[t].pc = "sort"
    /\ \E models \in SortedNewestFirst(tasks[t].entries) :
          LET path == GetBestModelPath(models, "lead_conversion", None)
              torn == \E i \in DOMAIN models :
                          ~(/\ Exists(files, models[i].model_path)
                            /\ files[models[i].model_path].whole)
          IN  tasks' = [tasks EXCEPT ![t] =
                          IF @.op = "list"
                          THEN [@ EXCEPT !.pc = "done", !.outcome = "return",
                                         !.models = models, !.success = TRUE,
                                         !.torn = torn]
                          ELSE IF NotResolved(path)
                          THEN [@ EXCEPT !.pc = "done", !.outcome = "return",
                                         !.models = models,
                                         !.error = NoModelError("lead_single")]
                          ELSE [@ EXCEPT !.pc = "load_blob", !.models = models,
                                         !.path = path]]
    /\ UNCHANGED <<files, dirs, clock, last>>

\* load_model: joblib.load(model_path)
ReadLoadBlob(t) ==
    /\ tasks[t].pc = "load_blob"
    /\ LET p == tasks[t].path
           ok == Exists(files, p) /\ files[p].kind = "blob" /\ files[p].whole
       IN  tasks' = [tasks EXCEPT ![t] =
                        IF ok THEN [@ EXCEPT !.pc = "load_meta", !.model = files[p].doc]
                        ELSE ReadFailed(@, "LoadError")]
    /\ UNCHANGED <<files, dirs, clock, last>>

\* load_model: json.load of model_path.replace('.joblib', '_metadata.json'); the
\* handler then infers and returns its result
ReadLoadMeta(t) ==
    /\ tasks[t].pc = "load_meta"
    /\ LET p == Replace(tasks[t].path, JOBLIB, METADATA)
           ok == Exists(files, p) /\ files[p].kind = "meta" /\ files[p].whole
       IN  tasks' = [tasks EXCEPT ![t] =
                        IF ok
                        THEN [@ EXCEPT !.pc = "done", !.outcome = "return",
                                       !.success = TRUE, !.metadata = files[p].doc,
                                       !.torn = (files[p].doc # tasks[t].model)]
                        ELSE ReadFailed(@, "LoadError")]
    /\ UNCHANGED <<files, dirs, clock, last>>

\* time passes
Tick ==
    /\ clock < MaxTaskClock
    /\ clock' = clock + 1
    /\ UNCHANGED <<files, dirs, last, tasks>>

StampStep == \E t \in TrainTasks : TrainStamp(t)
MakeDirsStep == \E t \in TrainTasks : TrainMakeDirs(t)
DumpOpenStep == \E t \in TrainTasks : TrainDumpOpen(t)
DumpWriteStep == \E t \in TrainTasks : TrainDumpWrite(t)
MetaOpenStep == \E t \in TrainTasks : TrainMetaOpen(t)
MetaWriteStep == \E t \in TrainTasks : TrainMetaWrite(t)
ScanStep == \E t \in ReadTasks : ReadScan(t)
SortStep == \E t \in ReadTasks : ReadSort(t)
LoadBlobStep == \E t \in ReadTasks : ReadLoadBlob(t)
LoadMetaStep == \E t \in ReadTasks : ReadLoadMeta(t)

(***************************************************************************)
(* A train racing with a reader of the same owner.                         *)
(***************************************************************************)
InitRace ==
    /\ files = <<>>
    /\ dirs = {ModelDir}
    /\ clock = 0
    /\ last = [op |-> "init", changed |-> TRUE]
    /\ tasks = [t \in {"t1", "r"} |-> Idle]

RaceTrainStart ==
    \E t \in TrainTasks, model_name \in {<<"m">>, <<"n">>} :
        TrainStart(t, "lead_conversion", "random_forest", model_name, <<"a">>)

RaceReadStart == \E t \in ReadTasks, op \in ReadOps : ReadStart(t, op, <<"a">>)

NextRace ==
    \/ RaceTrainStart \/ StampStep \/ MakeDirsStep \/ DumpOpenStep \/ DumpWriteStep
    \/ MetaOpenStep \/ MetaWriteStep
    \/ RaceReadStart \/ ScanStep \/ SortStep \/ LoadBlobStep \/ LoadMetaStep
    \/ Tick

SpecRace == InitRace /\ [][NextRace]_vars

\* C9: under any interleaving of a train with a list_models or a predict of the
\* same owner the reader sees only fully written pairs: every artifact it returns
\* or loads has its blob and its complete metadata document, and the read does not
\* fail because of the write in progress.
C9_ReadersSeeWholePairs ==
    \A t \in ReadTasks :
        tasks[t].pc = "done" =>
            /\ tasks[t].outcome = "return"
            /\ tasks[t].error \notin {"JSONDecodeError", "FileNotFoundError", "LoadError"}
            /\ ~tasks[t].torn

(***************************************************************************)
(* Two trains at once.                                                     *)
(***************************************************************************)
\* the (owner_id, model_name) keys the two callers train
TrainKeys ==
    {<<<<"a", SEP, "b">>, <<"m">>>>,
     <<<<"a", SEP, "b">>, <<"n">>>>,
     <<<<"a">>, <<"b", SEP, "m">>>>}

InitTrains ==
    /\ files = <<>>
    /\ dirs = {ModelDir}
    /\ clock = 0
    /\ last = [op |-> "init", changed |-> TRUE]
    /\ tasks = [t \in Trainers |-> Idle]

KeyedTrainStart ==
    \E t \in TrainTasks, key \in TrainKeys :
        TrainStart(t, "lead_conversion", "random_forest", key[2], key[1])

NextTrains ==
    \/ KeyedTrainStart \/ StampStep \/ MakeDirsStep \/ DumpOpenStep \/ DumpWriteStep
    \/ MetaOpenStep \/ MetaWriteStep \/ Tick

SpecTrains == InitTrains /\ [][NextTrains]_vars

\* a finished train call that returned its result
Returned(t) == tasks[t].pc = "done" /\ tasks[t].outcome = "return"

\* C10: two concurrent train calls whose (owner_id, model_name) keys differ never
\* write the same file, and both end with their own complete artifact pair in the
\* store, each holding its own model and metadata.
C10_IndependentTrains ==
    \A t, u \in TrainTasks :
        (/\ t # u
         /\ Returned(t)
         /\ Returned(u)
         /\ <<tasks[t].doc.user_id, tasks[t].doc.model_name>>
                # <<tasks[u].doc.user_id, tasks[u].doc.model_name>>) =>
            /\ tasks[t].path # tasks[u].path
            /\ tasks[t].metadata_path # tasks[u].metadata_path
            /\ Exists(files, tasks[t].path)
            /\ files[tasks[t].path] = Blob(tasks[t].doc, TRUE)
            /\ Exists(files, tasks[t].metadata_path)
            /\ files[tasks[t].metadata_path] = MetaDoc(tasks[t].doc, TRUE)

(***************************************************************************)
(* delete_model under failing removals.                                    *)
(***************************************************************************)
\* C11: delete_model never raises; when the removal of either file fails it returns
\* False; when the blob removal fails the metadata document stays, and when the
\* metadata removal fails the blob removal already done is not rolled back.
C11_DeleteReportsFailure ==
    last.op = "delete" =>
        /\ last.outcome = "return"
        /\ last.fault = "none" => last.returned
        /\ last.fault = "blob_remove" =>
              /\ ~last.returned
              /\ DOMAIN files = last.before
        /\ last.fault = "meta_remove" =>
              /\ ~last.returned
              /\ DOMAIN files = last.before \ {last.path}
              /\ Exists(files, Replace(last.path, JOBLIB, METADATA))

\* C11 witness: the blob of a stored pair was removed, the removal of its metadata
\* document failed, False was returned and the metadata document is still there.
C11_Witness ==
    /\ last.op = "delete"
    /\ last.fault = "meta_remove"
    /\ ~last.returned
    /\ last.path \in last.before
    /\ ~Exists(files, last.path)
    /\ Exists(files, Sibling(last.path))

(***************************************************************************)
(* The order of get_model_list.                                            *)
(***************************************************************************)
\* the instant a training_date names, in clock ticks
TicksOf(date) == date[1] * TicksPerSecond + (IF Len(date) > 1 THEN date[2] ELSE 0)

\* C12: list_models(owner) returns every artifact of the owner once, newest
\* training_date first: of two adjacent entries with distinct training_date the
\* earlier entry has the strictly later one; an owner without a namespace gets the
\* empty list.
C12_ListNewestFirst ==
    (last.op = "list" /\ last.outcome = "return") =>
        LET models == last.models
        IN  /\ {Sibling(models[i].model_path) : i \in DOMAIN models}
                  = MetadataFiles(files, last.user_id)
            /\ Len(models) = Cardinality(MetadataFiles(files, last.user_id))
            /\ \A i \in DOMAIN models :
                  models[i].metadata = files[Sibling(models[i].model_path)].doc
            /\ \A i \in 1..(Len(models) - 1) :
                  models[i].metadata.training_date # models[i + 1].metadata.training_date =>
                      TicksOf(models[i].metadata.training_date)
                          > TicksOf(models[i + 1].metadata.training_date)
            /\ UserDir(last.user_id) \notin dirs => models = <<>>

\* C12 witness: a list of two artifacts trained at different instants, the later
\* one first.
C12_Witness ==
    /\ last.op = "list"
    /\ last.outcome = "return"
    /\ Len(last.models) = 2
    /\ TicksOf(last.models[1].metadata.training_date)
          > TicksOf(last.models[2].metadata.training_date)

(***************************************************************************)
(* Which operations change the store.                                      *)
(***************************************************************************)
\* the operations that only read
ReadOnlyOps == {"list", "predict", "insights", "cross_validate"}

\* C13: a file of the store appears only in a step of train and disappears only in
\* a step of delete_model; list_models, the predict handlers, get_prediction_insights
\* and cross_validate_model leave the stored blobs and metadata documents, and their
\* contents, as they were.
C13_OnlyTrainAndDeleteChangeStore ==
    [][/\ DOMAIN files' \ DOMAIN files # {} => last'.op = "train"
       /\ DOMAIN files \ DOMAIN files' # {} => last'.op = "delete"
       /\ last'.op \in ReadOnlyOps => files' = files /\ dirs' = dirs]_vars

\* C13 witness: a cross-validation of a registered pair has returned while the store
\* holds an artifact.
C13_Witness ==
    /\ last.op = "cross_validate"
    /\ last.outcome = "return"
    /\ \E p \in DOMAIN files : files[p].kind = "meta" /\ files[p].whole

(***************************************************************************)
(* What train_model writes against what load_model reads.                  *)
(***************************************************************************)
\* C14: for every artifact train has written, load_model on the storage path train
\* returned yields metadata whose model_type, algorithm and feature name list (same
\* names, same order) are those train wrote.
C14_RoundTrip ==
    (last.op = "train" /\ last.success) =>
        LET loaded == LoadModel(files, last.path)
        IN  /\ loaded.ok
            /\ loaded.metadata.model_type = last.model_type
            /\ loaded.metadata.algorithm = last.algorithm
            /\ loaded.metadata.features = FeatureNames

(***************************************************************************)
(* Pure functions of the trainer, the predictor and the preprocessing,     *)
(* applied to inputs drawn from bounded sets.                              *)
(***************************************************************************)
MaxFeatures == 2        \* most feature names of a training frame
MaxWeight == 2          \* largest raw importance of one feature, in units

SeqSum(s) ==
    LET Sum[i \in 0..Len(s)] == IF i = 0 THEN 0 ELSE Sum[i - 1] + s[i]
    IN  Sum[Len(s)]

\* what the model exposes: feature_importances_ (the tree models), coefs_ (the
\* neural network), coef_ (LogisticRegression and LinearRegression), or none of them
ModelFamilies == {"native", "coefs", "coef", "neither"}

\* the raw importance vectors: non-negative weights, for the coefficient families
\* the absolute values of the coefficients
RawImportances(len) == [1..len -> 0..MaxWeight]

\* get_feature_importance(model, feature_names), feature_names = 1..n.  A weight
\* is the fraction nums[i] / den; den = 0 is the NaN numpy gives for 0 / 0.
\* raises tells that np.abs(model.coefs_) raised (layers of different shapes).
GetFeatureImportance(family, raw, raises, n) ==
    LET ones == [i \in 1..n |-> 1]
        \* importance as read from the model, before the normalisation
        \* hasattr(model, 'feature_importances_'), elif hasattr(model, 'coefs_'), else:
        \* coef_ is not looked at
        importance == IF family \in {"native", "coefs"} THEN raw ELSE ones
        \* importance / np.sum(importance)
        den == SeqSum(importance)
        \* dict(zip(feature_names, importance)): the shorter of the two
        zipped == IF Len(importance) < n THEN Len(importance) ELSE n
    IN  IF family = "coefs" /\ raises
        THEN [nums |-> ones, den |-> n]       \* except: 1.0 / len(feature_names) each
        ELSE [nums |-> SubSeq(importance, 1, zipped), den |-> den]

\* The action: one call of get_feature_importance.
FeatureImportance(family, raw, raises, n) ==
    /\ last' = [op |-> "feature_importance", family |-> family, raw |-> raw,
                raises |-> raises, features |-> n,
                importance |-> GetFeatureImportance(family, raw, raises, n),
                changed |-> FALSE]
    /\ UNCHANGED <<files, dirs, clock, tasks>>

FeatureImportanceCall ==
    /\ last.op = "init"
    /\ \E family \in ModelFamilies, n \in 1..MaxFeatures, raises \in BOOLEAN :
        \E len \in IF family = "coefs" THEN 1..(MaxFeatures + 1) ELSE {n} :
            \E raw \in RawImportances(len) :
                /\ family = "neither" => raw = [i \in 1..n |-> 0]
                /\ raises => family = "coefs"
                /\ FeatureImportance(family, raw, raises, n)

\* probabilities are counted in units of 0.00001: ProbScale is the probability 1.0
ProbScale == 100000
\* the thresholds 0.7 and 0.4 of prediction_class
HighProbability == 70000
MediumProbability == 40000

\* the probabilities predict_proba gives for the positive class: the ends of the
\* range and the values at and next to the two thresholds
Probabilities ==
    {0, MediumProbability - 1, MediumProbability, MediumProbability + 1,
     HighProbability - 1, HighProbability, HighProbability + 1, ProbScale}

\* a row of predict_proba for the positive-class probability p: two columns, or one
\* column when the model saw a single class
ProbaRow(p, columns) == IF columns = 2 THEN <<ProbScale - p, p>> ELSE <<p>>

\* prediction_proba[0][1] if len(prediction_proba[0]) > 1 else prediction_proba[0][0]
ConversionProbability(row) == IF Len(row) > 1 THEN row[2] ELSE row[1]

\* a tier with inclusive thresholds
PredictionClassInclusive(p) ==
    IF p >= HighProbability THEN "high"
    ELSE IF p >= MediumProbability THEN "medium"
    ELSE "low"

\* predict_lead_conversion: 'prediction_class'
PredictionClass(p) ==
    IF p > HighProbability THEN "high"
    ELSE IF p > MediumProbability THEN "medium"
    ELSE "low"

\* batch_predict_lead_conversion: 'prediction_class'
BatchPredictionClass(p) ==
    IF p > HighProbability THEN "high"
    ELSE IF p > MediumProbability THEN "medium"
    ELSE "low"

\* confidence is kept in units of 1/ConfidenceScale, half a unit of probability, so
\* that the halving in _calculate_prediction_confidence is exact
ConfidenceScale == 2 * ProbScale

\* _calculate_prediction_confidence(probability, probabilities):
\* (min(abs(probability - 0.5) * 2, 1.0) + np.max(probabilities)) / 2
calculate_prediction_confidence(probability, probabilities) ==
    LET distance_from_threshold ==
            IF probability >= ProbScale \div 2 THEN probability - ProbScale \div 2
            ELSE ProbScale \div 2 - probability
        confidence == IF distance_from_threshold * 2 <= ProbScale
                      THEN distance_from_threshold * 2 ELSE ProbScale
        max_prob == SetMax({probabilities[k] : k \in DOMAIN probabilities})
    IN  confidence + max_prob

\* The action: the result predict_lead_conversion builds from the model's output.
ClassifyLead(row) ==
    /\ last' = [op |-> "classify", proba |-> <<row>>,
                results |-> <<[conversion_probability |-> ConversionProbability(row),
                               confidence |->
                                   calculate_prediction_confidence(
                                       ConversionProbability(row), row),
                               prediction_class |->
                                   PredictionClass(ConversionProbability(row))]>>,
                changed |-> FALSE]
    /\ UNCHANGED <<files, dirs, clock, tasks>>

ClassifyLeadCall ==
    /\ last.op = "init"
    /\ \E p \in Probabilities, columns \in {1, 2} : ClassifyLead(ProbaRow(p, columns))

MaxBatch == 2           \* most records of a batch

\* the records of a batch: with an id, or without the 'id' key
Leads == {[has_id |-> TRUE, id |-> "x"], [has_id |-> TRUE, id |-> "y"],
          [has_id |-> FALSE, id |-> ""]}

\* lead_data.get('id', f'lead_{i}'), i the position enumerate() counts from 0
LeadId(lead, i) == IF lead.has_id THEN <<lead.id>> ELSE <<"lead_", ToString(i)>>

\* a results list that keeps only the records that carry an id
BatchResultsWithId(leads_data, predictions_proba) ==
    LET kept == SelectSeq([k \in 1..Len(leads_data) |-> k],
                          LAMBDA k : leads_data[k].has_id)
    IN  [j \in 1..Len(kept) |->
            [lead_id |-> LeadId(leads_data[kept[j]], kept[j] - 1),
             conversion_probability |-> ConversionProbability(predictions_proba[kept[j]]),
             confidence |->
                 calculate_prediction_confidence(
                     ConversionProbability(predictions_proba[kept[j]]),
                     predictions_proba[kept[j]]),
             prediction_class |->
                 BatchPredictionClass(ConversionProbability(predictions_proba[kept[j]]))]]

\* the `results` list batch_predict_lead_conversion builds, one entry appended per
\* record of leads_data
BatchResults(leads_data, predictions_proba) ==
    [k \in 1..Len(leads_data) |->
        [lead_id |-> LeadId(leads_data[k], k - 1),
         conversion_probability |-> ConversionProbability(predictions_proba[k]),
         confidence |->
             calculate_prediction_confidence(
                 ConversionProbability(predictions_proba[k]), predictions_proba[k]),
         prediction_class |->
             BatchPredictionClass(ConversionProbability(predictions_proba[k]))]]

\* The action: the result batch_predict_lead_conversion builds from the model's
\* output, one row of predict_proba per record.
ClassifyBatch(leads_data, predictions_proba) ==
    /\ last' = [op |-> "classify_batch", leads |-> leads_data,
                proba |-> predictions_proba,
                results |-> BatchResults(leads_data, predictions_proba),
                total_predictions |-> Len(BatchResults(leads_data, predictions_proba)),
                changed |-> FALSE]
    /\ UNCHANGED <<files, dirs, clock, tasks>>

ClassifyBatchCall ==
    /\ last.op = "init"
    /\ \E n \in 1..MaxBatch, columns \in {1, 2} :
        \E leads_data \in [1..n -> Leads], ps \in [1..n -> Probabilities] :
            ClassifyBatch(leads_data, [k \in 1..n |-> ProbaRow(ps[k], columns)])

\* the thresholds of _categorize_lifetime_value
HighValue == 10000
MediumValue == 1000
LowValue == 100

\* the values model.predict gives: negative ones, zero, and the values at and next
\* to the three thresholds
Predictions ==
    {-1, 0, LowValue - 1, LowValue, LowValue + 1, MediumValue, MediumValue + 1,
     HighValue, HighValue + 1}

\* a prediction passed on without the clamp
Unclamped(prediction) == prediction

\* lifetime_value = max(0, prediction)
LifetimeValue(prediction) == IF 0 >= prediction THEN 0 ELSE prediction

\* _categorize_lifetime_value
CategorizeLifetimeValue(value) ==
    IF value > HighValue THEN "high_value"
    ELSE IF value > MediumValue THEN "medium_value"
    ELSE IF value > LowValue THEN "low_value"
    ELSE "very_low_value"

\* a regression confidence without the 0.9 cap
RegressionConfidenceUncapped(prediction) ==
    (IF prediction >= 0 THEN prediction ELSE 0 - prediction) * (ConfidenceScale \div 1000)
        + ConfidenceScale \div 10

\* _calculate_regression_confidence(model, features, prediction), the loaded model
\* having a predict method: min(abs(prediction) / 1000, 0.9) + 0.1
calculate_regression_confidence(prediction) ==
    LET magnitude == (IF prediction >= 0 THEN prediction ELSE 0 - prediction)
                         * (ConfidenceScale \div 1000)
        cap == 9 * (ConfidenceScale \div 10)
    IN  (IF magnitude <= cap THEN magnitude ELSE cap) + ConfidenceScale \div 10

\* The action: the result predict_customer_lifetime_value builds from the model's
\* output.
ValueCustomer(prediction) ==
    /\ last' = [op |-> "value", prediction |-> prediction,
                lifetime_value |-> LifetimeValue(prediction),
                confidence |-> calculate_regression_confidence(LifetimeValue(prediction)),
                value_category |-> CategorizeLifetimeValue(LifetimeValue(prediction)),
                changed |-> FALSE]
    /\ UNCHANGED <<files, dirs, clock, tasks>>

ValueCustomerCall ==
    /\ last.op = "init"
    /\ \E prediction \in Predictions : ValueCustomer(prediction)

\* text as a sequence of characters
UpperCase == <<"A", "B", "C", "D", "E", "F", "G", "H", "I", "J", "K", "L", "M", "N", "O", "P", "Q", "R", "S", "T", "U", "V", "W", "X", "Y", "Z">>
LowerCase == <<"a", "b", "c", "d", "e", "f", "g", "h", "i", "j", "k", "l", "m", "n", "o", "p", "q", "r", "s", "t", "u", "v", "w", "x", "y", "z">>

\* str.lower()
Lower(s) ==
    [i \in DOMAIN s |->
        IF \E k \in DOMAIN UpperCase : UpperCase[k] = s[i]
        THEN LowerCase[CHOOSE k \in DOMAIN UpperCase : UpperCase[k] = s[i]]
        ELSE s[i]]

\* `sub in s` on strings
Contains(s, sub) ==
    \E i \in 1..(Len(s) - Len(sub) + 1) : SubSeq(s, i, i + Len(sub) - 1) = sub

\* any(role in title_lower for role in roles)
ContainsAny(s, keywords) == \E k \in keywords : Contains(s, k)

\* the keyword lists of calculate_job_title_score
decision_makers ==
    {<<"c", "e", "o">>,
     <<"c", "t", "o">>,
     <<"c", "f", "o">>,
     <<"p", "r", "e", "s", "i", "d", "e", "n", "t">>,
     <<"d", "i", "r", "e", "c", "t", "o", "r">>,
     <<"v", "p">>,
     <<"v", "i", "c", "e", " ", "p", "r", "e", "s", "i", "d", "e", "n", "t">>,
     <<"f", "o", "u", "n", "d", "e", "r">>,
     <<"o", "w", "n", "e", "r">>}

influencers ==
    {<<"s", "e", "n", "i", "o", "r">>,
     <<"l", "e", "a", "d">>,
     <<"m", "a", "n", "a", "g", "e", "r">>,
     <<"s", "u", "p", "e", "r", "v", "i", "s", "o", "r">>,
     <<"c", "o", "o", "r", "d", "i", "n", "a", "t", "o", "r">>}

\* a score that looks for the influencer keywords first
JobTitleScoreInfluencerFirst(job_title) ==
    IF job_title = <<>> THEN 0
    ELSE IF ContainsAny(Lower(job_title), influencers) THEN 15
    ELSE IF ContainsAny(Lower(job_title), decision_makers) THEN 25
    ELSE 5

\* calculate_job_title_score; the empty sequence is the missing title (None, NaN,
\* the empty string)
calculate_job_title_score(job_title) ==
    IF job_title = <<>> THEN 0
    ELSE LET title_lower == Lower(job_title)
         IN  IF ContainsAny(title_lower, decision_makers) THEN 25
             ELSE IF ContainsAny(title_lower, influencers) THEN 15
             ELSE 5

MaxTitleWords == 2      \* most words of a job title

\* the words job titles are made of
TitleWords ==
    {<<"V", "P">>,
     <<"S", "e", "n", "i", "o", "r">>,
     <<"A", "n", "a", "l", "y", "s", "t">>,
     <<"d", "i", "r", "e", "c", "t", "o", "r">>,
     <<"L", "e", "a", "d">>}

\* ' '.join(words)
JoinWords(words) ==
    LET Join[i \in 0..Len(words)] ==
            IF i = 0 THEN <<>>
            ELSE IF i = 1 THEN words[1]
            ELSE Join[i - 1] \o <<" ">> \o words[i]
    IN  Join[Len(words)]

\* the job titles of the leads: no title, and titles of up to MaxTitleWords words
JobTitles ==
    {JoinWords(ws) : ws \in UNION {[1..n -> TitleWords] : n \in 0..MaxTitleWords}}
        \cup {<<"V", "P", " ", "o", "f", " ", "E", "n", "g", "i", "n", "e", "e", "r", "i", "n", "g">>}

\* The action: one call of calculate_job_title_score.
JobTitleScore(job_title) ==
    /\ last' = [op |-> "job_title", title |-> job_title,
                score |-> calculate_job_title_score(job_title), changed |-> FALSE]
    /\ UNCHANGED <<files, dirs, clock, tasks>>

JobTitleScoreCall ==
    /\ last.op = "init"
    /\ \E job_title \in JobTitles : JobTitleScore(job_title)

\* the list calculate_email_domain_score names business_domains: the free mail
\* providers
business_domains ==
    {<<"g", "m", "a", "i", "l", ".", "c", "o", "m">>,
     <<"y", "a", "h", "o", "o", ".", "c", "o", "m">>,
     <<"h", "o", "t", "m", "a", "i", "l", ".", "c", "o", "m">>,
     <<"o", "u", "t", "l", "o", "o", "k", ".", "c", "o", "m">>,
     <<"a", "o", "l", ".", "c", "o", "m">>}

\* email.split('@'): the parts between the '@' signs, in order
SplitAt(email) ==
    LET ats == {i \in DOMAIN email : email[i] = "@"}
        cuts == ats \cup {0, Len(email) + 1}
        Part(k) ==
            LET from == CHOOSE c \in cuts : Cardinality({d \in cuts : d < c}) = k - 1
                to == CHOOSE c \in cuts : Cardinality({d \in cuts : d < c}) = k
            IN  SubSeq(email, from + 1, to - 1)
    IN  [k \in 1..(Cardinality(ats) + 1) |-> Part(k)]

\* a domain compared as it was typed
DomainAsTyped(email) == IF Contains(email, <<"@">>) THEN SplitAt(email)[2] ELSE <<>>

\* domain = email.split('@')[1].lower() if '@' in email else ''
EmailDomain(email) ==
    IF Contains(email, <<"@">>) THEN Lower(SplitAt(email)[2]) ELSE <<>>

\* calculate_email_domain_score; the empty sequence is the missing email (None,
\* NaN, the empty string)
calculate_email_domain_score(email) ==
    IF email = <<>> THEN 0
    ELSE IF EmailDomain(email) \notin business_domains THEN 15
    ELSE -5

\* the email addresses of the leads: none, addresses at free mail providers and at
\* other domains in lower, upper and mixed case, and text without an '@'
EmailLocals == {<<"a">>, <<"B", "o", "b", ".", "R", "a", "y">>}

EmailDomains ==
    business_domains \cup
    {<<"a", "c", "m", "e", ".", "c", "o", "m">>,
     <<"G", "M", "A", "I", "L", ".", "C", "O", "M">>,
     <<"Y", "a", "h", "o", "o", ".", "c", "o", "m">>,
     <<"A", "c", "m", "e", ".", "C", "O", "M">>,
     <<"g", "m", "a", "i", "l", ".", "c", "o">>}

Emails ==
    {<<>>} \cup EmailDomains
        \cup {local \o <<"@">> \o domain : local \in EmailLocals, domain \in EmailDomains}

\* The action: one call of calculate_email_domain_score.
EmailDomainScore(email) ==
    /\ last' = [op |-> "email", email |-> email,
                score |-> calculate_email_domain_score(email), changed |-> FALSE]
    /\ UNCHANGED <<files, dirs, clock, tasks>>

EmailDomainScoreCall ==
    /\ last.op = "init"
    /\ \E email \in Emails : EmailDomainScore(email)

\* where batch_predict_lead_conversion can fail on one record: the featurization of
\* the batch, predict_proba on the feature rows, the loop that builds the results
BatchStages == {"featurize", "infer", "results"}

\* the probabilities of the batches that fail
BatchProbabilities == {MediumProbability, HighProbability + 1}

\* a handler that answers with the records before the failing one
BatchHandlerPartial(leads_data, predictions_proba, bad, stage) ==
    LET kept == IF bad = 0 THEN Len(leads_data) ELSE bad - 1
        results == BatchResults(SubSeq(leads_data, 1, kept),
                                SubSeq(predictions_proba, 1, kept))
    IN  [keys |-> {"success", "total_predictions", "predictions", "model_info"},
         success |-> TRUE, error |-> "", predictions |-> results,
         total_predictions |-> Len(results)]

\* batch_predict_lead_conversion after the artifact is resolved: the try block and
\* its except clause.  bad is the record on which the stage raises, 0 for none; the
\* results appended before the exception are dropped with the frame of the try.
BatchHandler(leads_data, predictions_proba, bad, stage) ==
    LET results == BatchResults(leads_data, predictions_proba)
    IN  IF bad = 0
        THEN [keys |-> {"success", "total_predictions", "predictions", "model_info"},
              success |-> TRUE, error |-> "", predictions |-> results,
              total_predictions |-> Len(results)]
        ELSE [keys |-> {"success", "error"}, success |-> FALSE,
              error |-> IF stage = "featurize" THEN "FeatureError" ELSE "InferenceError",
              predictions |-> <<>>, total_predictions |-> 0]

\* The action: one call of batch_predict_lead_conversion on a resolved artifact.
PredictBatch(leads_data, predictions_proba, bad, stage) ==
    /\ last' = [op |-> "predict_batch", leads |-> leads_data, bad |-> bad,
                stage |-> stage,
                result |-> BatchHandler(leads_data, predictions_proba, bad, stage),
                changed |-> FALSE]
    /\ UNCHANGED <<files, dirs, clock, tasks>>

PredictBatchCall ==
    /\ last.op = "init"
    /\ \E n \in 1..MaxBatch :
        \E leads_data \in [1..n -> Leads], ps \in [1..n -> BatchProbabilities],
           bad \in 0..n, stage \in BatchStages :
            /\ bad = 0 => stage = "results"
            /\ PredictBatch(leads_data, [k \in 1..n |-> ProbaRow(ps[k], 2)], bad, stage)

MaxStored == 6          \* most feature importances stored in an artifact's metadata

\* metadata['feature_importance'] as train_model stored it: the weights
\* nums[i] / den in the order of the feature names, den = 0 the NaN of 0 / 0;
\* the names are the positions 1..Len(nums)
StoredImportances ==
    UNION {{[nums |-> nums, den |-> SeqSum(nums)] : nums \in RawImportances(n)} :
               n \in 0..MaxStored}

\* x[1] > y[1] on two stored weights: every comparison with NaN is false
WeightGreater(stored, i, j) == stored.den # 0 /\ stored.nums[i] > stored.nums[j]

\* sorted(feature_importance.items(), key=lambda x: x[1], reverse=True)[:5]: a
\* stable sort, so an item moves behind those that compare greater and behind the
\* earlier ones it neither exceeds nor is exceeded by
TopFeatures(stored) ==
    LET n == Len(stored.nums)
        Rank(i) == Cardinality({j \in 1..n : WeightGreater(stored, j, i)})
                   + Cardinality({j \in 1..(i - 1) :
                                      /\ ~WeightGreater(stored, j, i)
                                      /\ ~WeightGreater(stored, i, j)})
        At(k) == CHOOSE i \in 1..n : Rank(i) = k - 1
    IN  [k \in 1..(IF n < 5 THEN n ELSE 5) |->
            [feature |-> At(k), importance |-> stored.nums[At(k)]]]

\* _get_prediction_explanation(model, features, metadata)
GetPredictionExplanation(stored) ==
    [top_features |-> TopFeatures(stored), feature_count |-> Len(stored.nums),
     explanation_method |-> "feature_importance"]

\* The action: the explanation a prediction builds from the loaded metadata.
Explain(stored) ==
    /\ last' = [op |-> "explain", stored |-> stored,
                explanation |-> GetPredictionExplanation(stored), changed |-> FALSE]
    /\ UNCHANGED <<files, dirs, clock, tasks>>

ExplainCall ==
    /\ last.op = "init"
    /\ \E stored \in StoredImportances : Explain(stored)

\* the keyword bands of estimate_company_size
large_keywords ==
    {<<"i", "n", "c">>,
     <<"c", "o", "r", "p">>,
     <<"c", "o", "r", "p", "o", "r", "a", "t", "i", "o", "n">>,
     <<"l", "t", "d">>,
     <<"l", "i", "m", "i", "t", "e", "d">>}

medium_keywords ==
    {<<"l", "l", "c">>,
     <<"l", "l", "p">>,
     <<"c", "o">>,
     <<"c", "o", "m", "p", "a", "n", "y">>}

\* a size estimate that looks for the medium band first
EstimateCompanySizeMediumFirst(company) ==
    IF company = <<>> THEN 1
    ELSE IF ContainsAny(Lower(company), medium_keywords) THEN 25
    ELSE IF ContainsAny(Lower(company), large_keywords) THEN 50
    ELSE 10

\* estimate_company_size; the empty sequence is the missing company (None, NaN, the
\* empty string)
estimate_company_size(company) ==
    IF company = <<>> THEN 1
    ELSE LET company_lower == Lower(company)
         IN  IF ContainsAny(company_lower, large_keywords) THEN 50
             ELSE IF ContainsAny(company_lower, medium_keywords) THEN 25
             ELSE 10

MaxCompanyWords == 2    \* most words of a company name

\* the words company names are made of
CompanyWords ==
    {<<"A", "c", "m", "e">>,
     <<"S", "m", "i", "t", "h">>,
     <<"I", "n", "c">>,
     <<"C", "o", "r", "p">>,
     <<"L", "t", "d">>,
     <<"L", "i", "m", "i", "t", "e", "d">>,
     <<"L", "L", "C">>,
     <<"L", "L", "P">>,
     <<"C", "o">>}

\* the company names of the leads: no company, and names of up to MaxCompanyWords
\* words
Companies ==
    {<<>>} \cup {JoinWords(words) :
                    words \in UNION {[1..n -> CompanyWords] : n \in 1..MaxCompanyWords}}

\* The action: one call of estimate_company_size.
CompanySize(company) ==
    /\ last' = [op |-> "company_size", company |-> company,
                score |-> estimate_company_size(company), changed |-> FALSE]
    /\ UNCHANGED <<files, dirs, clock, tasks>>

CompanySizeCall ==
    /\ last.op = "init"
    /\ \E company \in Companies : CompanySize(company)

MaxRows == 2            \* most rows of a data frame
MaxColumns == 11        \* most columns of a one-row data frame
MaxWideColumns == 2     \* most columns of a data frame of several rows

\* the data frames: null[r][c] tells that the cell of row r and column c is missing
DataFrames ==
    UNION {UNION {{[rows |-> r, columns |-> c, null |-> null] :
                       null \in [1..r -> [1..c -> BOOLEAN]]} :
                      c \in 0..(IF r <= 1 THEN MaxColumns ELSE MaxWideColumns)} :
               r \in 0..MaxRows}

\* df[col].isnull().sum()
MissingCount(df, col) == Cardinality({r \in 1..df.rows : df.null[r][col]})

\* a score without the final clamp.  A score is the fraction num / den.
QualityScoreUnclamped(df) ==
    LET den == IF df.rows = 0 THEN 1 ELSE df.rows
    IN  [num |-> 100 * den - SeqSum([c \in 1..df.columns |-> 10 * MissingCount(df, c)]),
         den |-> den]

\* quality_score: (missing_count / len(df)) * 10 is subtracted for every column
\* with missing_count > 0, then max(0, min(100, 100 + quality_score)).  The score is
\* the fraction num / den, den the row count (1 for an empty frame, where no
\* column has a missing value and nothing is divided).
QualityScore(df) ==
    LET den == IF df.rows = 0 THEN 1 ELSE df.rows
        penalty == SeqSum([c \in 1..df.columns |->
                              IF MissingCount(df, c) > 0
                              THEN 10 * MissingCount(df, c) ELSE 0])
        raised == 100 * den - penalty
        capped == IF raised <= 100 * den THEN raised ELSE 100 * den
    IN  [num |-> IF 0 >= capped THEN 0 ELSE capped, den |-> den]

\* validate_data_quality(df): the report, without its data_types and duplicates
validate_data_quality(df) ==
    [total_rows |-> df.rows, total_columns |-> df.columns,
     missing_values |-> [c \in 1..df.columns |-> MissingCount(df, c)],
     quality_score |-> QualityScore(df)]

\* The action: one call of validate_data_quality.
ValidateDataQuality(df) ==
    /\ last' = [op |-> "quality", df |-> df, report |-> validate_data_quality(df),
                changed |-> FALSE]
    /\ UNCHANGED <<files, dirs, clock, tasks>>

ValidateDataQualityCall ==
    /\ last.op = "init"
    /\ \E df \in DataFrames : ValidateDataQuality(df)

NextPure ==
    \/ FeatureImportanceCall \/ ClassifyLeadCall \/ ClassifyBatchCall
    \/ ValueCustomerCall \/ JobTitleScoreCall \/ EmailDomainScoreCall
    \/ PredictBatchCall
    \/ ExplainCall
    \/ CompanySizeCall
    \/ ValidateDataQualityCall

SpecPure == Init /\ [][NextPure]_vars

\* C15: for every model family (native importances, coefficients, neither), also
\* when the importances are all zero, the stored feature_importance has one weight
\* per feature name and the weights sum to 1.
C15_ImportanceSumsToOne ==
    last.op = "feature_importance" =>
        /\ Len(last.importance.nums) = last.features
        /\ last.importance.den # 0
        /\ SeqSum(last.importance.nums) = last.importance.den

\* C16: in predict_single and predict_batch alike conversion_probability lies in
\* [0, 1] and the tier is high iff probability > 0.7, medium iff
\* 0.4 < probability <= 0.7, low iff probability <= 0.4: 0.7 is medium, 0.70001 is
\* high, 0.4 is low, 0.40001 is medium.
C16_ProbabilityTiers ==
    last.op \in {"classify", "classify_batch"} =>
        \A k \in DOMAIN last.results :
            LET p == last.results[k].conversion_probability
                tier == last.results[k].prediction_class
            IN  /\ p \in 0..100000
                /\ p = last.proba[k][Len(last.proba[k])]
                /\ tier = "high" <=> p > 70000
                /\ tier = "medium" <=> (40000 < p /\ p <= 70000)
                /\ tier = "low" <=> p <= 40000

\* C16 witness: a batch whose first record has probability 0.7 and is medium and
\* whose second has 0.70001 and is high.
C16_Witness ==
    /\ last.op = "classify_batch"
    /\ Len(last.results) = 2
    /\ last.results[1].conversion_probability = 70000
    /\ last.results[1].prediction_class = "medium"
    /\ last.results[2].conversion_probability = 70001
    /\ last.results[2].prediction_class = "high"

\* C17: the returned lifetime_value is the model's prediction clamped to be >= 0,
\* and its category is high_value iff value > 10000, medium_value iff
\* 1000 < value <= 10000, low_value iff 100 < value <= 1000, very_low_value
\* otherwise: 10001 is high_value, 1001 medium_value, 101 low_value, 99
\* very_low_value.
C17_LifetimeValueCategory ==
    last.op = "value" =>
        LET value == last.lifetime_value
            category == last.value_category
        IN  /\ value >= 0
            /\ last.prediction >= 0 => value = last.prediction
            /\ last.prediction < 0 => value = 0
            /\ category = "high_value" <=> value > 10000
            /\ category = "medium_value" <=> (1000 < value /\ value <= 10000)
            /\ category = "low_value" <=> (100 < value /\ value <= 1000)
            /\ category = "very_low_value" <=> value <= 100

\* C17 witness: a negative prediction, returned as the value 0 of the lowest
\* category.
C17_Witness ==
    /\ last.op = "value"
    /\ last.prediction < 0
    /\ last.lifetime_value = 0
    /\ last.value_category = "very_low_value"

\* C18 as stated: a title containing a decision-maker keyword scores 25, otherwise
\* a title containing an influencer keyword scores 15, otherwise 5.
C18_JobTitleScoreAsStated ==
    last.op = "job_title" =>
        last.score =
            IF ContainsAny(Lower(last.title), decision_makers) THEN 25
            ELSE IF ContainsAny(Lower(last.title), influencers) THEN 15
            ELSE 5

\* C18, amended: a missing (empty) title scores 0; a title that is present scores 25
\* when it contains a decision-maker keyword, otherwise 15 when it contains an
\* influencer keyword, otherwise 5, the decision-maker keyword taking precedence:
\* "VP of Engineering" gives 25, "Senior Analyst" 15, "Analyst" 5.
C18_JobTitleScore ==
    last.op = "job_title" =>
        LET title_lower == Lower(last.title)
            decision == \E k \in decision_makers : Contains(title_lower, k)
            influence == \E k \in influencers : Contains(title_lower, k)
        IN  /\ last.title = <<>> => last.score = 0
            /\ (last.title # <<>> /\ decision) => last.score = 25
            /\ (last.title # <<>> /\ ~decision /\ influence) => last.score = 15
            /\ (last.title # <<>> /\ ~decision /\ ~influence) => last.score = 5
            /\ last.title = <<"V", "P", " ", "o", "f", " ", "E", "n", "g", "i", "n", "e", "e", "r", "i", "n", "g">> => last.score = 25
            /\ last.title = <<"S", "e", "n", "i", "o", "r", " ", "A", "n", "a", "l", "y", "s", "t">> => last.score = 15
            /\ last.title = <<"A", "n", "a", "l", "y", "s", "t">> => last.score = 5

\* C18 witness: a title with an influencer keyword before a decision-maker keyword,
\* scored 25.
C18_Witness ==
    /\ last.op = "job_title"
    /\ last.title = <<"S", "e", "n", "i", "o", "r", " ", "V", "P">>
    /\ last.score = 25

\* the text of an address after its '@'; nothing when it has no '@'
AfterAt(email) ==
    IF \E i \in DOMAIN email : email[i] = "@"
    THEN SubSeq(email, (CHOOSE i \in DOMAIN email : email[i] = "@") + 1, Len(email))
    ELSE <<>>

\* C19 as stated: the score is +15 if the email's lower-cased domain is not in the
\* free mail list and -5 if it is.
C19_EmailDomainScoreAsStated ==
    last.op = "email" =>
        last.score = IF Lower(AfterAt(last.email)) \in business_domains THEN -5 ELSE 15

\* C19, amended: a missing (empty) email scores 0; an email that is present scores
\* -5 if the lower-cased domain after its '@' is in the free mail list and +15 if
\* it is not: "a@gmail.com" gives -5, "a@acme.com" gives 15.
C19_EmailDomainScore ==
    last.op = "email" =>
        LET free == Lower(AfterAt(last.email)) \in business_domains
        IN  /\ last.email = <<>> => last.score = 0
            /\ (last.email # <<>> /\ free) => last.score = -5
            /\ (last.email # <<>> /\ ~free) => last.score = 15
            /\ last.email = <<"a", "@", "g", "m", "a", "i", "l", ".", "c", "o", "m">> => last.score = -5
            /\ last.email = <<"a", "@", "a", "c", "m", "e", ".", "c", "o", "m">> => last.score = 15

\* C19 witness: an address at a free mail provider typed in upper case, scored -5.
C19_Witness ==
    /\ last.op = "email"
    /\ last.email = <<"a", "@", "G", "M", "A", "I", "L", ".", "C", "O", "M">>
    /\ last.score = -5

\* C20: a successful predict_batch returns one result per input record, in input
\* order: result i is for record i, named by the record's id or by lead_<i> (i
\* counted from 0) when the record has none, and total_predictions is the number of
\* input records.
C20_OneResultPerRecord ==
    last.op = "classify_batch" =>
        /\ Len(last.results) = Len(last.leads)
        /\ last.total_predictions = Len(last.leads)
        /\ \A k \in DOMAIN last.leads :
              /\ last.leads[k].has_id => last.results[k].lead_id = <<last.leads[k].id>>
              /\ ~last.leads[k].has_id =>
                    last.results[k].lead_id = <<"lead_", ToString(k - 1)>>
              /\ last.results[k].conversion_probability
                    = last.proba[k][Len(last.proba[k])]

\* C20 witness: a batch of two records, the first with an id and the second
\* without, answered with two results named by the id and by lead_1, whose
\* probabilities differ.
C20_Witness ==
    /\ last.op = "classify_batch"
    /\ Len(last.leads) = 2
    /\ last.total_predictions = 2
    /\ last.results[1].lead_id = <<"x">>
    /\ last.results[2].lead_id = <<"lead_", "1">>
    /\ last.results[1].conversion_probability # last.results[2].conversion_probability

\* C21: predict_batch has no partial success: when featurization or inference fails
\* for one record the whole batch returns one error result {success: false, error}
\* without a predictions list, also when the other records would have succeeded.
C21_BatchAllOrNothing ==
    (last.op = "predict_batch" /\ last.bad # 0) =>
        /\ last.result.keys = {"success", "error"}
        /\ ~last.result.success
        /\ last.result.error # ""
        /\ last.result.predictions = <<>>

\* C21 witness: a batch of two records whose second record fails in the results
\* loop, after the first was processed, answered with the error result.
C21_Witness ==
    /\ last.op = "predict_batch"
    /\ Len(last.leads) = 2
    /\ last.bad = 2
    /\ last.stage = "results"
    /\ ~last.result.success
    /\ "predictions" \notin last.result.keys

\* C22: get_insights(owner, task_type) counts exactly the owner's artifacts of that
\* task type, and when there is none it returns the uniform error shape
\* {success: false, error}.
C22_InsightsUniformError ==
    last.op = "insights" =>
        LET own == {m \in ModelEntries(files, dirs, last.user_id) :
                        m.metadata.model_type = last.model_type}
        IN  IF own = {}
            THEN last.keys = {"success", "error"} /\ last.error # ""
            ELSE last.error = "" /\ last.total_models = Cardinality(own)

\* C23: every successful prediction result carries a confidence in [0, 1]: for a
\* classification the average of min(2 * |p - 0.5|, 1) and the largest class
\* probability, for a regression min(|value| / 1000, 0.9) + 0.1.
C23_ConfidenceInUnitInterval ==
    /\ last.op \in {"classify", "classify_batch"} =>
           \A k \in DOMAIN last.results :
               LET p == last.results[k].conversion_probability
                   far == SetMax({2 * p - ProbScale, ProbScale - 2 * p})
                   largest == SetMax({last.proba[k][c] : c \in DOMAIN last.proba[k]})
               IN  /\ last.results[k].confidence \in 0..ConfidenceScale
                   /\ last.results[k].confidence = SetMin({far, ProbScale}) + largest
    /\ last.op = "value" =>
           LET per_mille == last.lifetime_value * ConfidenceScale
           IN  /\ last.confidence \in 0..ConfidenceScale
               /\ 10 * last.confidence =
                      SetMin({per_mille \div 100, 9 * ConfidenceScale}) + ConfidenceScale

C23_Witness ==
    /\ last.op = "value"
    /\ last.lifetime_value > 1000
    /\ last.confidence = ConfidenceScale

\* C24: native importances are used when the model has them; otherwise a model
\* that exposes linear or weight coefficients (logistic regression, linear
\* regression, feed-forward network) gets its normalized absolute coefficients; only
\* a model exposing neither gets the uniform 1 / n_features.
C24_CoefficientsBeforeUniform ==
    last.op = "feature_importance" =>
        LET w == last.importance
        IN  /\ (last.family # "neither" /\ SeqSum(last.raw) > 0
                    /\ Len(last.raw) = last.features) =>
                   /\ Len(w.nums) = last.features
                   /\ \A i \in 1..last.features :
                          w.nums[i] * SeqSum(last.raw) = last.raw[i] * w.den
            /\ last.family = "neither" =>
                   /\ Len(w.nums) = last.features
                   /\ \A i \in 1..last.features : w.nums[i] * last.features = w.den

\* C25: the explanation lists the min(5, n) stored feature importances with the
\* largest weights, in non-increasing order of weight, and feature_count is n, the
\* number of stored importances.
C25_TopFiveNonIncreasing ==
    last.op = "explain" =>
        LET top == last.explanation.top_features
            n == Len(last.stored.nums)
            listed == {top[k].feature : k \in DOMAIN top}
            AtLeast(a, b) == last.stored.den # 0 /\ a >= b
        IN  /\ last.explanation.feature_count = n
            /\ Len(top) = (IF n < 5 THEN n ELSE 5)
            /\ Cardinality(listed) = Len(top)
            /\ \A k \in DOMAIN top : top[k].importance = last.stored.nums[top[k].feature]
            /\ \A k \in 1..(Len(top) - 1) :
                   AtLeast(top[k].importance, top[k + 1].importance)
            /\ \A i \in listed, j \in (1..n) \ listed :
                   AtLeast(last.stored.nums[i], last.stored.nums[j])

\* C26 as stated: a company name containing one of inc, corp, ltd scores 50;
\* otherwise a name containing one of llc, co, company scores 25; every other name
\* scores 10.
C26_CompanySizeAsStated ==
    last.op = "company_size" =>
        LET name == Lower(last.company)
            large == \E k \in {<<"i", "n", "c">>,
                         <<"c", "o", "r", "p">>,
                         <<"l", "t", "d">>} : Contains(name, k)
            medium == \E k \in {<<"l", "l", "c">>,
                          <<"c", "o">>,
                          <<"c", "o", "m", "p", "a", "n", "y">>} : Contains(name, k)
        IN  last.score = IF large THEN 50 ELSE IF medium THEN 25 ELSE 10

\* C26, amended: a missing (empty) company name scores 1; a name that is present
\* scores 50 when its lower-cased text contains one of inc, corp, ltd, limited,
\* otherwise 25 when it contains one of llc, llp, co, otherwise 10; the 50 band
\* takes precedence when keywords of both bands occur.
C26_CompanySize ==
    last.op = "company_size" =>
        LET name == Lower(last.company)
            large == \E k \in {<<"i", "n", "c">>,
                         <<"c", "o", "r", "p">>,
                         <<"l", "t", "d">>,
                         <<"l", "i", "m", "i", "t", "e", "d">>} : Contains(name, k)
            medium == \E k \in {<<"l", "l", "c">>,
                          <<"l", "l", "p">>,
                          <<"c", "o">>} : Contains(name, k)
        IN  /\ last.company = <<>> => last.score = 1
            /\ (last.company # <<>> /\ large) => last.score = 50
            /\ (last.company # <<>> /\ ~large /\ medium) => last.score = 25
            /\ (last.company # <<>> /\ ~large /\ ~medium) => last.score = 10

\* C26 witness: a name with a keyword of the 25 band before one of the 50 band,
\* scored 50.
C26_Witness ==
    /\ last.op = "company_size"
    /\ last.company = <<"L", "L", "P", " ", "L", "i", "m", "i", "t", "e", "d">>
    /\ last.score = 50

\* C27: validate_data_quality reports the row count, the column count and the
\* missing count of every column of the matrix, and the quality score
\* max(0, min(100, 100 - 10 * sum over the columns of missing count / row count)).
C27_QualityScore ==
    last.op = "quality" =>
        LET df == last.df
            report == last.report
            score == report.quality_score
            Missing(c) == Cardinality({r \in 1..df.rows : df.null[r][c]})
            \* the sum of the missing fractions, times the row count
            missing == SeqSum([c \in 1..df.columns |-> Missing(c)])
        IN  /\ report.total_rows = df.rows
            /\ report.total_columns = df.columns
            /\ Len(report.missing_values) = df.columns
            /\ \A c \in 1..df.columns : report.missing_values[c] = Missing(c)
            /\ score.den > 0
            /\ score.num \in 0..(100 * score.den)
            /\ df.rows > 0 =>
                   score.num * df.rows =
                       score.den * SetMax({0, SetMin({100 * df.rows,
                                                       100 * df.rows - 10 * missing})})
            /\ df.rows = 0 => score.num = 100 * score.den

\* C27 witness: a frame whose eleven columns are all missing, the score clamped to 0.
C27_Witness ==
    /\ last.op = "quality"
    /\ last.df.rows = 1
    /\ last.df.columns = 11
    /\ \A c \in 1..11 : last.report.missing_values[c] = 1
    /\ last.report.quality_score.num = 0

(***************************************************************************)
(* Several owners, and owner ids and model names that contain '/' or the   *)
(* two file suffixes: the request models validate neither.                 *)
(***************************************************************************)
MaxTenantClock == 2     \* the clock value of the last train call

\* the owners: a, and a/b, whose directory lies inside a's
TenantOwners == {<<"a">>, <<"a", SEP, "b">>}

\* the train requests: (model_type, algorithm, model_name, user_id)
TenantTrainings ==
    {<<"lead_conversion", "random_forest", <<"m">>, <<"a">>>>,
     <<"customer_lifetime_value", "random_forest", <<"m">>, <<"a">>>>,
     <<"lead_conversion", "random_forest", <<"m">>, <<"a", SEP, "b">>>>,
     <<"lead_conversion", "random_forest", <<"b", SEP, "m">>, <<"a">>>>,
     <<"lead_conversion", "random_forest", <<"m", JOBLIB>>, <<"a">>>>,
     <<"lead_conversion", "random_forest", <<"m", METADATA>>, <<"a">>>>}

TenantTrainCall ==
    /\ Open
    /\ clock <= MaxTenantClock
    /\ \E request \in TenantTrainings :
        Train(request[1], request[2], request[3], request[4], 0, "none")

TenantDeleteCall ==
    /\ Open
    /\ \E model_path \in DeletePaths : Delete(model_path, "none")

TenantListCall ==
    /\ Open
    /\ \E user_id \in TenantOwners : ListModels(user_id)

TenantPredictCall ==
    /\ Open
    /\ \E kind \in {"lead_single", "clv_single"}, user_id \in TenantOwners,
          model_name \in {None, <<"m">>} :
        Predict(kind, user_id, model_name, "none")

TenantInsightsCall ==
    /\ Open
    /\ \E user_id \in TenantOwners,
          model_type \in {"lead_conversion", "customer_lifetime_value"} :
        Insights(user_id, model_type)

NextTenants ==
    \/ TenantTrainCall \/ TenantDeleteCall \/ TenantListCall
    \/ TenantPredictCall \/ TenantInsightsCall

SpecTenants == Init /\ [][NextTenants]_vars

\* C28: after any sequence of train and delete_model calls by any owners,
\* list_models(A) returns only artifacts whose metadata owner is A, a prediction
\* for A resolves to and loads only an artifact trained by A, and the insights for
\* A count only A's artifacts.
C28_OwnerIsolation ==
    /\ (last.op = "list" /\ last.outcome = "return") =>
           \A i \in DOMAIN last.models : last.models[i].metadata.user_id = last.user_id
    /\ (last.op = "predict" /\ last.path # None) =>
           \A i \in ChosenEntries(last.models, last.path) :
               last.models[i].metadata.user_id = last.user_id
    /\ (last.op = "predict" /\ last.success) => last.metadata.user_id = last.user_id
    /\ (last.op = "insights" /\ last.error = "") =>
           last.total_models =
               Cardinality({p \in DOMAIN files :
                               /\ EndsWith(p, METADATA)
                               /\ DirName(p) = UserDir(last.user_id)
                               /\ files[p].doc.user_id = last.user_id
                               /\ files[p].doc.model_type = last.model_type})

\* C29: when a model_name is supplied and the owner's list holds several artifacts
\* of the requested task type with that name, the resolution picks the one with
\* the latest training_date among them; without a model_name it picks the artifact
\* that the list places first among those of the task type.
C29_LatestVersion ==
    last.op = "predict" =>
        LET of_type == {i \in DOMAIN last.models :
                           last.models[i].metadata.model_type = ModelTypeOf(last.kind)}
            named == {i \in of_type : last.models[i].metadata.model_name = last.model_name}
            Date(i) == TicksOf(last.models[i].metadata.training_date)
        IN  /\ (last.model_name # None /\ Cardinality(named) >= 2) =>
                   \E i \in named :
                       /\ last.path = last.models[i].model_path
                       /\ \A j \in named : Date(j) <= Date(i)
            /\ (last.model_name = None /\ of_type # {}) =>
                   last.path = last.models[SetMin(of_type)].model_path

\* C29 witness: two versions of the model m trained in different seconds, and a
\* prediction by name that resolved to the later one.
C29_Witness ==
    /\ last.op = "predict"
    /\ last.model_name = <<"m">>
    /\ last.success
    /\ \E i, j \in DOMAIN last.models :
           /\ last.models[i].metadata.model_name = <<"m">>
           /\ last.models[j].metadata.model_name = <<"m">>
           /\ last.models[i].metadata.model_type = ModelTypeOf(last.kind)
           /\ last.models[j].metadata.model_type = ModelTypeOf(last.kind)
           /\ last.models[i].model_path # last.models[j].model_path
           /\ TicksOf(last.models[j].metadata.training_date)
                  < TicksOf(last.models[i].metadata.training_date)
           /\ last.path = last.models[i].model_path

\* C30: delete_model(path) touches only the pair of the artifact at path: every
\* other file of the store is kept, so every other artifact keeps its blob and its
\* metadata and stays listed; deleting a path that has no files changes nothing.
C30_DeleteTouchesOnlyItsPair ==
    last.op = "delete" =>
        LET pair == {last.path, Sibling(last.path)}
        IN  /\ \A p \in last.before \ pair : Exists(files, p)
            /\ pair \cap last.before = {} => DOMAIN files = last.before

====
